---- MODULE Spec2Model ----
(***************************************************************************)
(* SkyCity demo (src/main.js): camera presets, the eased camera fly        *)
(* (flyToPreset / applyFly), the interaction flag, the popup, resize and   *)
(* the render loop.  The file holds two revisions of the demo (lines 1-418 *)
(* and 420-826); `rev` selects which one runs.                             *)
(*                                                                         *)
(* Numbers.  performance.now() is counted in quanta of 25 milliseconds,   *)
(* and fly.seconds is held as seconds * 1000 / 25 (1.25 s is 50), so that  *)
(* (now - start) / (seconds * 1000) is the quotient of two integers.       *)
(* A Vector3 is one integer coordinate (the x component of the source      *)
(* preset divided by 100); position and target are separate coordinates.   *)
(* JavaScript's NaN and Infinity are explicit values.                      *)
(* three.js calls are taken by their documented contract:                  *)
(* lerpVectors(a, b, alpha) is a + (b - a) * alpha, clone/copy copy the    *)
(* value, OrbitControls ignores input while controls.enabled is false and  *)
(* dispatches 'start' when an enabled gesture begins; controls.update()    *)
(* is taken to leave the pose that was just written.                       *)
(***************************************************************************)
EXTENDS Integers, Sequences, FiniteSets

\* ---------------------------------------------------------------- bounds
MaxNow == 81
MaxStarts == 2

\* ------------------------------------------------------------- constants
\* null / undefined; a record, as every value it is compared with is one
NULL == [null |-> TRUE]
\* the coordinate value NaN: an integer outside the range of every coordinate
NaN == -1000000

\* durations and delays, in quanta of 25 ms
SecBtn1 == 46
SecBtn2 == 50
SecEscape == 42
SecBtn1Rev2 == 50
SecBtn2Rev2 == 54
PopupDelayRev2 == 48

PRESET_HOME == [name |-> "Home", pos |-> 176, target |-> 18]
PRESET_FED == [name |-> "Fed street", pos |-> 86, target |-> 66]
PRESET_HOME_MOBILE == [name |-> "Home Mobile", pos |-> 168, target |-> 26]
PRESET_FED_MOBILE == [name |-> "Fed Mobile", pos |-> 93, target |-> 65]

\* elapsed time between two events, in quanta
Steps == {25, 27}

\* poses a user gesture can leave the camera in
UserPoses == {[pos |-> 120, target |-> 30]}

\* fitCameraToObject(modelBox, 1.35) on the centred model: the target is the
\* box centre, the position is pulled back along the Home direction.
FitPose == [pos |-> 300, target |-> 0]

VARIABLES
  rev,               \* which revision of the demo runs
  now,               \* performance.now()
  mobilePortrait,    \* isMobilePortrait()
  userInteracted,
  fly,
  controlsEnabled,   \* controls.enabled
  cameraPosition,    \* camera.position
  controlsTarget,    \* controls.target
  root,              \* the model is loaded (and makeUI has run)
  popupVisible,      \* popup opacity is "1"
  timers,            \* deadlines of pending setTimeout(showPopup)
  nextId,            \* history: number of flyToPreset calls so far
  lastStart,         \* history: arguments and camera pose of the last call
  superseded,        \* history: transitions replaced while active
  arrived,           \* history: owners of the onArrive calls, in order
  last               \* history: the last operation

vars == <<rev, now, mobilePortrait, userInteracted, fly, controlsEnabled,
          cameraPosition, controlsTarget, root, popupVisible, timers,
          nextId, lastStart, superseded, arrived, last>>

\* ------------------------------------------------------------ arithmetic
Cube(x) == x * x * x

Num(n, d) == [kind |-> "num", num |-> n, den |-> d]
NanVal == [kind |-> "nan", num |-> 0, den |-> 1]
PosInf == [kind |-> "inf", num |-> 1, den |-> 1]
NegInf == [kind |-> "ninf", num |-> 0, den |-> 1]

\* x / y in IEEE arithmetic, for integers x and y
Divide(x, y) ==
  IF y = 0
    THEN IF x = 0 THEN NanVal ELSE IF x > 0 THEN PosInf ELSE NegInf
    ELSE IF y < 0 THEN Num(-x, -y) ELSE Num(x, y)

Clamp01_NoUpper(t) ==
  CASE t.kind = "nan" -> NanVal
    [] t.kind = "inf" -> PosInf
    [] t.kind = "ninf" -> Num(0, 1)
    [] OTHER -> IF t.num <= 0 THEN Num(0, 1) ELSE t

\* Math.min(1, Math.max(0, t))
Clamp01(t) ==
  CASE t.kind = "nan" -> NanVal
    [] t.kind = "inf" -> Num(1, 1)
    [] t.kind = "ninf" -> Num(0, 1)
    [] OTHER -> IF t.num <= 0 THEN Num(0, 1)
                ELSE IF t.num >= t.den THEN Num(1, 1) ELSE t

\* t >= 1
AtLeastOne(t) ==
  CASE t.kind = "nan" -> FALSE
    [] t.kind = "inf" -> TRUE
    [] t.kind = "ninf" -> FALSE
    [] OTHER -> t.num >= t.den

easeInOutCubic_Square(t) ==
  IF t.kind = "nan" THEN NanVal
  ELSE IF 2 * t.num < t.den
    THEN Num(4 * t.num * t.num, t.den * t.den)
    ELSE Num(2 * Cube(t.den) - Cube(2 * t.den - 2 * t.num), 2 * Cube(t.den))

easeInOutCubic(t) ==
  IF t.kind = "nan" THEN NanVal
  ELSE IF 2 * t.num < t.den
    THEN Num(4 * Cube(t.num), Cube(t.den))
    ELSE Num(2 * Cube(t.den) - Cube(2 * t.den - 2 * t.num), 2 * Cube(t.den))

\* one coordinate of lerpVectors(a, b, alpha), on the unit grid
lerpVectors(a, b, alpha) ==
  IF a = NaN \/ b = NaN \/ alpha.kind = "nan" THEN NaN
  ELSE a + (((b - a) * alpha.num) \div alpha.den)

\* ---------------------------------------------------------------- presets
getPresetHome(m) == IF m THEN PRESET_HOME_MOBILE ELSE PRESET_HOME
getPresetFed(m) == IF m THEN PRESET_FED_MOBILE ELSE PRESET_FED

\* the pose applyResponsiveStartView leaves (second revision)
ResponsiveStartPose(m) ==
  IF m THEN FitPose ELSE [pos |-> PRESET_HOME.pos, target |-> PRESET_HOME.target]

\* ------------------------------------------------------------------ popup
showPopup(visible) == IF root THEN TRUE ELSE visible
hidePopup(visible) == IF root THEN FALSE ELSE visible

\* ------------------------------------------------------------------- Init
NoStart == [id |-> 0, start |-> 0, seconds |-> 0, fromPos |-> 0, toPos |-> 0,
            fromTarget |-> 0, toTarget |-> 0, onArrive |-> NULL]

Init ==
  /\ rev \in {1, 2}
  /\ now = 0
  /\ mobilePortrait \in BOOLEAN
  /\ userInteracted = FALSE
  /\ fly = NULL
  /\ controlsEnabled = TRUE
  /\ cameraPosition = 0
  /\ controlsTarget = 0
  /\ root = FALSE
  /\ popupVisible = FALSE
  /\ timers = {}
  /\ nextId = 0
  /\ lastStart = NoStart
  /\ superseded = {}
  /\ arrived = <<>>
  /\ last = "init"

\* ------------------------------------------------------------ flyToPreset
NewFly_KeepCallback(preset, seconds, onArrive) ==
  [id |-> nextId + 1,
   start |-> now,
   seconds |-> seconds,
   fromPos |-> cameraPosition,
   toPos |-> preset.pos,
   fromTarget |-> controlsTarget,
   toTarget |-> preset.target,
   onArrive |-> IF onArrive = NULL
                  THEN IF fly = NULL THEN NULL ELSE fly.onArrive
                  ELSE [fn |-> onArrive.fn, owner |-> nextId + 1]]

NewFly_KeepFrom(preset, seconds, onArrive) ==
  [id |-> nextId + 1,
   start |-> now,
   seconds |-> seconds,
   fromPos |-> IF fly = NULL THEN cameraPosition ELSE fly.fromPos,
   toPos |-> preset.pos,
   fromTarget |-> IF fly = NULL THEN controlsTarget ELSE fly.fromTarget,
   toTarget |-> preset.target,
   onArrive |-> IF onArrive = NULL THEN NULL
                ELSE [fn |-> onArrive.fn, owner |-> nextId + 1]]

\* the record flyToPreset builds; id is the history name of the transition
NewFly(preset, seconds, onArrive) ==
  [id |-> nextId + 1,
   start |-> now,
   seconds |-> seconds,
   fromPos |-> cameraPosition,
   toPos |-> preset.pos,
   fromTarget |-> controlsTarget,
   toTarget |-> preset.target,
   onArrive |-> IF onArrive = NULL THEN NULL
                ELSE [fn |-> onArrive.fn, owner |-> nextId + 1]]

ControlsWhileFlying_Left == controlsEnabled
\* controls.enabled = false; // prevent fighting
ControlsWhileFlying == FALSE

flyToPreset(preset, seconds, onArrive) ==
  /\ fly' = NewFly(preset, seconds, onArrive)
  /\ controlsEnabled' = ControlsWhileFlying
  /\ nextId' = nextId + 1
  /\ lastStart' = [id |-> nextId + 1, start |-> now, seconds |-> seconds,
                   fromPos |-> cameraPosition, toPos |-> preset.pos,
                   fromTarget |-> controlsTarget, toTarget |-> preset.target,
                   onArrive |-> onArrive]
  /\ superseded' = IF fly = NULL THEN superseded
                   ELSE superseded \cup {[id |-> fly.id,
                                           cb |-> fly.onArrive # NULL]}

\* ---------------------------------------------------------------- applyFly
ProgressAt(f, n) == Divide(n - f.start, f.seconds)
EasedAt(f, n) == easeInOutCubic(Clamp01(ProgressAt(f, n)))
Progress(f) == ProgressAt(f, now)
Eased(f) == EasedAt(f, now)

ClearedFly_Kept == fly
ControlsAfterArrival_Left == controlsEnabled
\* fly = null; controls.enabled = true;
ClearedFly == NULL
ControlsAfterArrival == TRUE

\* the record a flyToPreset called from inside onArrive builds, and its history
\* entry: the tick has already written the camera to (pos, target)
CallbackFly(pos, target) ==
  [NewFly(PRESET_HOME, SecBtn1, NULL) EXCEPT !.fromPos = pos,
                                            !.fromTarget = target]

CallbackStart(pos, target) ==
  [id |-> nextId + 1, start |-> now, seconds |-> SecBtn1,
   fromPos |-> pos, toPos |-> PRESET_HOME.pos,
   fromTarget |-> target, toTarget |-> PRESET_HOME.target,
   onArrive |-> NULL]

FlyAfterTick_ClearLast(started) == ClearedFly
\* fly = null; controls.enabled = true; and only then cb(): what a
\* flyToPreset inside the callback has written is what the tick leaves behind
FlyAfterTick(started) ==
  IF started = NULL THEN ClearedFly ELSE started

ControlsAfterTick(started) ==
  IF started = NULL THEN ControlsAfterArrival ELSE ControlsWhileFlying

applyFly ==
  IF fly = NULL
    THEN UNCHANGED <<fly, controlsEnabled, cameraPosition, controlsTarget,
                     popupVisible, arrived, nextId, lastStart, superseded>>
    ELSE LET pos == lerpVectors(fly.fromPos, fly.toPos, Eased(fly))
             target == lerpVectors(fly.fromTarget, fly.toTarget, Eased(fly))
             cb == IF AtLeastOne(Progress(fly)) /\ fly.onArrive # NULL
                     THEN fly.onArrive.fn ELSE "none"
             started == IF cb = "flyToPreset" THEN CallbackFly(pos, target)
                        ELSE NULL
         IN /\ cameraPosition' = pos
            /\ controlsTarget' = target
            /\ IF AtLeastOne(Progress(fly))
                 THEN /\ fly' = FlyAfterTick(started)
                      /\ controlsEnabled' = ControlsAfterTick(started)
                 ELSE UNCHANGED <<fly, controlsEnabled>>
            /\ arrived' = IF cb = "none" THEN arrived
                          ELSE Append(arrived, fly.onArrive.owner)
            /\ popupVisible' = IF cb = "showPopup" THEN showPopup(popupVisible)
                               ELSE popupVisible
            /\ IF cb = "flyToPreset"
                 THEN /\ nextId' = nextId + 1
                      /\ lastStart' = CallbackStart(pos, target)
                      /\ UNCHANGED superseded
                 ELSE UNCHANGED <<nextId, lastStart, superseded>>

\* ------------------------------------------------------------------ events
\* render(): one animation frame
Render ==
  /\ applyFly
  /\ last' = "render"
  /\ UNCHANGED <<rev, now, mobilePortrait, userInteracted, root, timers>>

\* time passes between events
Advance ==
  /\ \E dt \in Steps : now + dt <= MaxNow /\ now' = now + dt
  /\ last' = "advance"
  /\ UNCHANGED <<rev, mobilePortrait, userInteracted, fly, controlsEnabled,
                 cameraPosition, controlsTarget, root, popupVisible, timers,
                 nextId, lastStart, superseded, arrived>>

\* loader.load success callback
Load ==
  /\ ~root
  /\ root' = TRUE
  /\ IF rev = 1
       THEN /\ cameraPosition' = getPresetHome(mobilePortrait).pos
            /\ controlsTarget' = getPresetHome(mobilePortrait).target
       ELSE IF userInteracted \/ fly # NULL
         THEN UNCHANGED <<cameraPosition, controlsTarget>>
         ELSE /\ cameraPosition' = ResponsiveStartPose(mobilePortrait).pos
              /\ controlsTarget' = ResponsiveStartPose(mobilePortrait).target
  /\ last' = "load"
  /\ UNCHANGED <<rev, now, mobilePortrait, userInteracted, fly, controlsEnabled,
                 popupVisible, timers, nextId, lastStart, superseded, arrived>>

MarkInteracted_Toggle == ~userInteracted
\* userInteracted = true;
MarkInteracted == TRUE

\* OrbitControls 'start': a gesture begins while the controls are enabled and
\* moves the camera
ControlsStart ==
  /\ controlsEnabled
  /\ userInteracted' = MarkInteracted
  /\ popupVisible' = hidePopup(popupVisible)
  /\ \E p \in UserPoses \cup {[pos |-> cameraPosition, target |-> controlsTarget]} :
       /\ cameraPosition' = p.pos
       /\ controlsTarget' = p.target
  /\ last' = "start"
  /\ UNCHANGED <<rev, now, mobilePortrait, fly, controlsEnabled, root, timers,
                 nextId, lastStart, superseded, arrived>>

\* pointerdown on the canvas while the controls are disabled (with the
\* controls enabled the same pointerdown is the ControlsStart gesture)
PointerDown ==
  /\ ~controlsEnabled
  /\ IF rev = 1
       THEN /\ userInteracted' = MarkInteracted
            /\ popupVisible' = hidePopup(popupVisible)
       ELSE UNCHANGED <<userInteracted, popupVisible>>
  /\ last' = "pointerdown"
  /\ UNCHANGED <<rev, now, mobilePortrait, fly, controlsEnabled, cameraPosition,
                 controlsTarget, root, timers, nextId, lastStart, superseded,
                 arrived>>

Btn1Click ==
  /\ root
  /\ nextId < MaxStarts
  /\ popupVisible' = hidePopup(popupVisible)
  /\ IF rev = 1
       THEN flyToPreset(getPresetHome(mobilePortrait), SecBtn1, NULL)
       ELSE flyToPreset(PRESET_HOME, SecBtn1Rev2, NULL)
  /\ last' = "btn1"
  /\ UNCHANGED <<rev, now, mobilePortrait, userInteracted, cameraPosition,
                 controlsTarget, root, timers, arrived>>

Btn2Click ==
  /\ root
  /\ nextId < MaxStarts
  /\ IF rev = 1
       THEN /\ popupVisible' = hidePopup(popupVisible)
            /\ flyToPreset(getPresetFed(mobilePortrait), SecBtn2, [fn |-> "showPopup"])
            /\ UNCHANGED timers
       ELSE /\ flyToPreset(PRESET_FED, SecBtn2Rev2, NULL)
            /\ timers' = timers \cup {now + PopupDelayRev2}
            /\ UNCHANGED popupVisible
  /\ last' = "btn2"
  /\ UNCHANGED <<rev, now, mobilePortrait, userInteracted, cameraPosition,
                 controlsTarget, root, arrived>>

EscapeKey ==
  /\ root
  /\ nextId < MaxStarts
  /\ popupVisible' = hidePopup(popupVisible)
  /\ flyToPreset(getPresetHome(rev = 1 /\ mobilePortrait), SecEscape, NULL)
  /\ last' = "escape"
  /\ UNCHANGED <<rev, now, mobilePortrait, userInteracted, cameraPosition,
                 controlsTarget, root, timers, arrived>>

\* a setTimeout(showPopup, 1200) of the second revision comes due
TimerFire ==
  /\ \E d \in timers :
       /\ d <= now
       /\ timers' = timers \ {d}
  /\ popupVisible' = showPopup(popupVisible)
  /\ last' = "timer"
  /\ UNCHANGED <<rev, now, mobilePortrait, userInteracted, fly, controlsEnabled,
                 cameraPosition, controlsTarget, root, nextId, lastStart,
                 superseded, arrived>>

ResizeReframes_Always ==
  IF rev = 1 THEN root ELSE root /\ fly = NULL

\* the condition under which resize() re-frames the camera
ResizeReframes ==
  IF rev = 1 THEN ~userInteracted /\ root
  ELSE root /\ ~userInteracted /\ fly = NULL

\* the window 'resize' event; the viewport may change device class
Resize ==
  /\ \E m \in BOOLEAN :
       /\ mobilePortrait' = m
       /\ IF ResizeReframes
            THEN IF rev = 1
                   THEN /\ cameraPosition' = getPresetHome(m).pos
                        /\ controlsTarget' = getPresetHome(m).target
                   ELSE /\ cameraPosition' = ResponsiveStartPose(m).pos
                        /\ controlsTarget' = ResponsiveStartPose(m).target
            ELSE UNCHANGED <<cameraPosition, controlsTarget>>
  /\ last' = "resize"
  /\ UNCHANGED <<rev, now, userInteracted, fly, controlsEnabled, root,
                 popupVisible, timers, nextId, lastStart, superseded, arrived>>

Next ==
  \/ Render
  \/ Advance
  \/ Load
  \/ ControlsStart
  \/ PointerDown
  \/ Btn1Click
  \/ Btn2Click
  \/ EscapeKey
  \/ TimerFire
  \/ Resize

Spec == Init /\ [][Next]_vars

\* ------------------------------------------------- the controller on its own
\* flyToPreset and applyFly driven directly, with any duration and callback
CtlPresets == {PRESET_HOME, PRESET_FED}
CtlSeconds == {-40, 0, 50}
CtlCallbacks == {NULL, [fn |-> "showPopup"], [fn |-> "flyToPreset"]}

InitCtl ==
  /\ rev = 1
  /\ now = 0
  /\ mobilePortrait = FALSE
  /\ userInteracted = FALSE
  /\ fly = NULL
  /\ controlsEnabled = TRUE
  /\ cameraPosition = PRESET_HOME.pos
  /\ controlsTarget = PRESET_HOME.target
  /\ root = TRUE
  /\ popupVisible = FALSE
  /\ timers = {}
  /\ nextId = 0
  /\ lastStart = NoStart
  /\ superseded = {}
  /\ arrived = <<>>
  /\ last = "init"

CtlStart ==
  /\ \E p \in CtlPresets, s \in CtlSeconds, cb \in CtlCallbacks :
       /\ nextId + (IF cb = [fn |-> "flyToPreset"] THEN 2 ELSE 1) <= MaxStarts
       /\ flyToPreset(p, s, cb)
  /\ last' = "ctlstart"
  /\ UNCHANGED <<rev, now, mobilePortrait, userInteracted, cameraPosition,
                 controlsTarget, root, popupVisible, timers, arrived>>

NextCtl ==
  \/ CtlStart
  \/ Render
  \/ Advance

SpecCtl == InitCtl /\ [][NextCtl]_vars

\* ================================================================= claims
Count(seq, x) == Cardinality({i \in DOMAIN seq : seq[i] = x})
Ids(S) == {r.id : r \in S}
InputOps == {"start", "pointerdown"}
StartOps == {"btn1", "btn2", "escape", "ctlstart"}

\* C1: in every reachable state a transition record exists exactly when manual
\* camera input is disabled, and the controls turn from disabled to enabled
\* only in the frame tick that clears the transition.
C1_GateIffActive ==
  /\ []((fly # NULL) <=> ~controlsEnabled)
  /\ [][(~controlsEnabled /\ controlsEnabled')
          => (last' = "render" /\ fly # NULL /\ fly' = NULL)]_vars

\* a tick has just completed a transition and handed the camera back
C1_Witness ==
  /\ last = "render"
  /\ fly = NULL
  /\ controlsEnabled
  /\ lastStart.id > 0
  /\ now >= lastStart.start + lastStart.seconds
  /\ cameraPosition = lastStart.toPos

\* C2: the onArrive callback of a transition that was replaced by a later
\* flyToPreset while still active is never invoked, whatever ticks and starts
\* follow.
C2_SupersededNeverArrives ==
  \A i \in DOMAIN arrived : arrived[i] \notin Ids(superseded)

\* a transition with a callback was replaced and a later tick has completed
\* the transition that replaced it
C2_Witness ==
  /\ last = "render"
  /\ fly = NULL
  /\ now >= lastStart.start + lastStart.seconds
  /\ \E r \in superseded : r.cb /\ r.id < lastStart.id

\* C3: on a tick of an active transition, the transition is discarded, the
\* controls re-enabled and its callback invoked exactly when the elapsed time
\* has reached the duration; otherwise nothing is invoked and the transition
\* stays; no callback is invoked outside a tick, or twice.
C3_ArrivesExactlyOnce ==
  /\ [](\A i \in DOMAIN arrived : Count(arrived, arrived[i]) = 1)
  /\ [][last' # "render" => arrived' = arrived]_vars
  /\ [][(last' = "render" /\ fly # NULL)
          => IF now - fly.start >= fly.seconds
               THEN /\ fly' = NULL
                    /\ controlsEnabled'
                    /\ arrived' = IF fly.onArrive # NULL
                                    THEN Append(arrived, fly.id) ELSE arrived
               ELSE /\ fly' = fly
                    /\ ~controlsEnabled'
                    /\ arrived' = arrived]_vars

\* a callback has been invoked by the tick that completed its transition
C3_Witness ==
  /\ last = "render"
  /\ fly = NULL
  /\ Len(arrived) = 1
  /\ arrived[1] = lastStart.id
  /\ popupVisible

\* C4: after the first tick that follows a flyToPreset with a duration of zero
\* or less, the transition is inactive, the camera is at the target pose (and
\* is a number) and the callback, if any, has been invoked exactly once.
C4_NonPositiveDurationArrives ==
  (last = "render" /\ lastStart.id > 0 /\ lastStart.seconds <= 0)
    => /\ fly = NULL
       /\ cameraPosition = lastStart.toPos
       /\ controlsTarget = lastStart.toTarget
       /\ cameraPosition # NaN
       /\ (lastStart.onArrive # NULL => Count(arrived, lastStart.id) = 1)

C6_LastStartGoverns ==
  /\ [][nextId' # nextId
          => /\ fly'.fromPos = cameraPosition
             /\ fly'.fromTarget = controlsTarget
             /\ fly'.start = now
             /\ fly'.id = nextId']_vars
  /\ [][(last' = "render" /\ fly # NULL)
          => /\ cameraPosition' =
                  lerpVectors(lastStart.fromPos, lastStart.toPos,
                              EasedAt(lastStart, now))
             /\ controlsTarget' =
                  lerpVectors(lastStart.fromTarget, lastStart.toTarget,
                              EasedAt(lastStart, now))
             /\ (fly' = NULL <=> now - lastStart.start >= lastStart.seconds)
             /\ (arrived' # arrived
                   => /\ lastStart.onArrive # NULL
                      /\ arrived' = Append(arrived, lastStart.id))]_vars

RestPositions ==
  {0, PRESET_HOME.pos, PRESET_FED.pos, PRESET_HOME_MOBILE.pos,
   PRESET_FED_MOBILE.pos, FitPose.pos} \cup {p.pos : p \in UserPoses}

\* a transition started in mid-flight of another, from an interpolated pose,
\* has been ticked
C6_Witness ==
  /\ last = "render"
  /\ fly # NULL
  /\ superseded # {}
  /\ fly.fromPos \notin RestPositions
  /\ cameraPosition # fly.fromPos

\* a <= b for two progress values
Leq(a, b) ==
  IF a.den = b.den THEN a.num <= b.num
  ELSE IF a.den = 2 * b.den THEN a.num <= 2 * b.num
  ELSE IF 2 * a.den = b.den THEN 2 * a.num <= b.num
  ELSE a.num * b.den <= b.num * a.den

Between(x, a, b) == (a <= x /\ x <= b) \/ (b <= x /\ x <= a)

\* C7: at every tick time of a transition just started, from its start to
\* past its end,
\* the eased progress is a number in [0,1], does not decrease from one tick
\* time to the next and is 1/2 at raw progress 1/2; the position and target written by a tick use the same eased
\* value and lie between their from and to coordinates.
C7_EasedProgress ==
  /\ []((fly # NULL /\ last \in StartOps)
          => \A n \in fly.start .. fly.start + fly.seconds :
               LET e == EasedAt(fly, n) IN
                 /\ e.kind = "num"
                 /\ Leq(Num(0, 1), e) /\ Leq(e, Num(1, 1))
                 /\ Leq(e, EasedAt(fly, n + 1))
                 /\ (2 * (n - fly.start) = fly.seconds => 2 * e.num = e.den))
  /\ [][(last' = "render" /\ fly # NULL)
          => /\ Between(cameraPosition', fly.fromPos, fly.toPos)
             /\ Between(controlsTarget', fly.fromTarget, fly.toTarget)
             /\ \E e \in {Eased(fly)} :
                  /\ cameraPosition' = lerpVectors(fly.fromPos, fly.toPos, e)
                  /\ controlsTarget' =
                       lerpVectors(fly.fromTarget, fly.toTarget, e)]_vars

\* a tick at exactly half the duration of a transition between two different
\* positions, with the camera strictly between them
C7_Witness ==
  /\ last = "render"
  /\ fly # NULL
  /\ 2 * (now - fly.start) = fly.seconds
  /\ cameraPosition # fly.fromPos
  /\ cameraPosition # fly.toPos
  /\ Between(cameraPosition, fly.fromPos, fly.toPos)

\* C8: userInteracted is false at first, is true after a controls 'start' and
\* (first revision) after a canvas pointerdown, is set by nothing else, and
\* once true stays true through every later event.
C8_InteractedOneWay ==
  /\ ~userInteracted
  /\ [][userInteracted => userInteracted']_vars
  /\ [][(last' = "start" \/ (last' = "pointerdown" /\ rev = 1))
          => userInteracted']_vars
  /\ [][(~userInteracted /\ userInteracted') => last' \in InputOps]_vars

\* the flag is still true at a resize that follows input and a transition
C8_Witness ==
  /\ userInteracted
  /\ last = "resize"
  /\ nextId > 0

\* the Home view of a device class: the Home preset of the first revision, the
\* responsive start view of the second
HomeViewpoint(m) ==
  IF rev = 1
    THEN [pos |-> getPresetHome(m).pos, target |-> getPresetHome(m).target]
    ELSE ResponsiveStartPose(m)

PoseUnchanged ==
  cameraPosition' = cameraPosition /\ controlsTarget' = controlsTarget

\* C9 as stated: a resize leaves the pose unchanged once userInteracted is
\* true, and sets it to the Home viewpoint of the current device class while
\* userInteracted is false and the model is loaded.
C9_ResizeReframesUntilInteracted ==
  [][last' = "resize"
       => IF userInteracted THEN PoseUnchanged
          ELSE root => /\ cameraPosition' = HomeViewpoint(mobilePortrait').pos
                       /\ controlsTarget' = HomeViewpoint(mobilePortrait').target]_vars

\* C9 amended: as stated, except that in the second revision the resize
\* re-frames only while no transition is active.
C9_ResizeReframesWhenIdle ==
  [][last' = "resize"
       => IF userInteracted THEN PoseUnchanged
          ELSE (root /\ (rev = 1 \/ fly = NULL))
                 => /\ cameraPosition' = HomeViewpoint(mobilePortrait').pos
                    /\ controlsTarget' = HomeViewpoint(mobilePortrait').target]_vars

\* a resize before any manual input has put the camera back on the Home view
\* after a transition had taken it elsewhere
C9_Witness ==
  /\ last = "resize"
  /\ ~userInteracted
  /\ root
  /\ fly = NULL
  /\ lastStart.id > 0
  /\ lastStart.toPos # HomeViewpoint(mobilePortrait).pos
  /\ cameraPosition = HomeViewpoint(mobilePortrait).pos
  /\ controlsTarget = HomeViewpoint(mobilePortrait).target

FedViewpoints ==
  {[pos |-> getPresetFed(m).pos, target |-> getPresetFed(m).target] :
     m \in IF rev = 1 THEN BOOLEAN ELSE {FALSE}}

\* C11: in both revisions the popup is never visible while a transition is
\* active, and it turns visible only in the frame tick that completes a
\* transition to a Fed viewpoint - so never for a Fed transition that a later
\* start has replaced.
C11_PopupOnlyOnFedArrival ==
  /\ [](popupVisible => fly = NULL)
  /\ [][(~popupVisible /\ popupVisible')
          => /\ last' = "render"
             /\ fly # NULL
             /\ fly' = NULL
             /\ [pos |-> fly.toPos, target |-> fly.toTarget] \in FedViewpoints]_vars

\* C12: in the first revision, whenever the popup is visible the
\* camera position and orbit target are those of a Fed viewpoint and no
\* transition is active.
C12_PopupMeansAtFed ==
  (rev = 1 /\ popupVisible)
    => /\ fly = NULL
       /\ [pos |-> cameraPosition, target |-> controlsTarget] \in FedViewpoints

\* what does hold in the first revision: a visible popup means no transition is
\* active, and the camera is on a Fed viewpoint unless a resize before any
\* manual input has put it back on the Home viewpoint.
PopupAtFedOrReframed ==
  (rev = 1 /\ popupVisible)
    => /\ fly = NULL
       /\ \/ [pos |-> cameraPosition, target |-> controlsTarget] \in FedViewpoints
          \/ /\ ~userInteracted
             /\ [pos |-> cameraPosition, target |-> controlsTarget]
                  = HomeViewpoint(mobilePortrait)

\* C13: when the tick that completes a transition invokes an onArrive that
\* itself calls flyToPreset, the tick returns with the newly started transition
\* active, starting from the pose the tick has just written, and with controls
\* disabled; and the completed transition's callback is invoked once in that
\* tick and never again.
C13_CallbackMayRestart ==
  /\ [][(last' = "render" /\ fly # NULL /\ arrived' # arrived
           /\ fly.onArrive.fn = "flyToPreset")
          => /\ fly' # NULL
             /\ fly'.id > fly.id
             /\ fly'.start = now
             /\ fly'.fromPos = cameraPosition'
             /\ fly'.fromTarget = controlsTarget'
             /\ ~controlsEnabled'
             /\ arrived' = Append(arrived, fly.id)]_vars
  /\ [](\A i \in 1..nextId : Count(arrived, i) <= 1)

\* a tick has just completed a transition whose callback called flyToPreset:
\* the callback is on record once, and the transition it started (the only
\* start of SecBtn1 seconds in the controller runs) is active from the pose the
\* tick wrote, with controls disabled
C13_Witness ==
  /\ last = "render"
  /\ fly # NULL
  /\ fly.seconds = SecBtn1
  /\ fly.start = now
  /\ fly.fromPos = cameraPosition
  /\ fly.fromPos # PRESET_HOME.pos
  /\ ~controlsEnabled
  /\ Count(arrived, fly.id - 1) = 1

====
